---- MODULE Spec2Model ----
(***************************************************************************)
(* Model of the MongoDB engine of synor (src/src/index.ts, the factory     *)
(* MongoDbEngine of lines 247-357): the engine object's connection state,  *)
(* the migration-record collection it reads and writes, and its eight      *)
(* operations open, close, lock, unlock, drop, run, repair and records.    *)
(* Every operation is awaited by the caller before the next one is issued, *)
(* so each handler is one atomic action; the outcome of every store round  *)
(* trip (it answers or it rejects) is an input of the action.              *)
(***************************************************************************)
EXTENDS Integers, Sequences, FiniteSets, TLC

\* ---------------------------------------------------------------- bounds
MaxRecords == 2   \* cap on the size of the record collection
MaxId      == 2   \* largest value of the `id` field of a stored document
MaxClock   == 1   \* largest reading of performance.now()
MaxCorr    == 2   \* longest list of corrections handed to repair
MaxConns   == 2   \* MongoClient.connect calls that succeed

\* ------------------------------------------------------------- constants
Null  == 0        \* `null` of `client` and `db`
NoId  == 0        \* a document without an `id` field
Instances == {1, 2}                 \* orchestrator processes calling lock()
RecordTable == "synor_migration_record"
OtherColl   == "users"

ErrNull    == "Database connection is null"
ErrRunNull == "Run function is null"
ErrUnit    == "MigrationFailure"
ErrStore   == "StoreOperationError"
ErrConnect == "ConnectionError"
ErrExists  == "NamespaceExists"
ErrClosed  == "Topology was destroyed"

\* MigrationSource: {version, type, title, hash, run}; `run` tells whether
\* the descriptor carries a runnable unit.
Descriptors ==
  { [version |-> 1, type |-> "do",   title |-> "t1", hash |-> "h1", run |-> TRUE],
    [version |-> 2, type |-> "undo", title |-> "t2", hash |-> "h2", run |-> TRUE],
    [version |-> 2, type |-> "undo", title |-> "t2", hash |-> "h2", run |-> FALSE] }

NoDesc == [version |-> 0, type |-> "", title |-> "", hash |-> "", run |-> FALSE]

\* RunDoc with the two clock readings subtracted the wrong way round.
RunDocClockSwapped(d, startTime, endTime, dirty) ==
  [id |-> NoId, version |-> d.version, type |-> d.type, title |-> d.title,
   hash |-> d.hash, appliedAt |-> "now", appliedBy |-> "",
   executionTime |-> startTime - endTime, dirty |-> dirty]

\* The document run inserts. It has no `id` field.
RunDoc(d, startTime, endTime, dirty) ==
  [id |-> NoId, version |-> d.version, type |-> d.type, title |-> d.title,
   hash |-> d.hash, appliedAt |-> "now", appliedBy |-> "",
   executionTime |-> endTime - startTime, dirty |-> dirty]

\* Documents found in the collection at start: those of earlier sessions of
\* this engine carry no id, those of other writers carry one.
PreDocs ==
  { [id |-> i, version |-> 1, type |-> "do", title |-> "t1", hash |-> "h1",
     appliedAt |-> "then", appliedBy |-> "", executionTime |-> 0, dirty |-> dy] :
       i \in {NoId} \cup 1..MaxId, dy \in BOOLEAN }

HasId(r) == r.id # NoId

SeqsUpTo(S, n) == UNION { [1..k -> S] : k \in 0..n }

DistinctIds(t) ==
  \A i, j \in 1..Len(t) : (i # j /\ HasId(t[i]) /\ HasId(t[j])) => t[i].id # t[j].id

Corrections == [id : 1..MaxId, hash : {"h2", "fixed"}]

VARIABLES client, db, conns, collections, table, holders, last

vars == <<client, db, conns, collections, table, holders, last>>

\* The call that returned last: its arguments, what happened inside it (unit:
\* what the runnable unit did, insert: what the bookkeeping insert did,
\* failAt: the store call of repair that rejected, again: a repair that
\* repeats the successful repair right before it, swept: the deletedCount
\* of its deleteMany) and how it ended (result: "ok" or the error it rejected
\* with, rows: what records returned).
NoCall == [op |-> "none", result |-> "ok", desc |-> NoDesc, unit |-> "none",
           insert |-> "none", corrections |-> <<>>, failAt |-> 0,
           again |-> FALSE, swept |-> 0, startid |-> 0, rows |-> <<>>]

Call(op, result) == [NoCall EXCEPT !.op = op, !.result = result]

\* The handle `db` is usable: it belongs to a client that is connected. A
\* store call through a handle whose client was closed rejects (ErrClosed)
\* without reaching the store.
Alive == db # Null /\ db \in conns

Init ==
  /\ client = Null
  /\ db = Null
  /\ conns = {}
  /\ holders = {}
  /\ last = NoCall
  /\ table \in SeqsUpTo(PreDocs, MaxRecords)
  /\ DistinctIds(table)
  /\ collections \in {{}, {RecordTable}}
  /\ (table # <<>>) => RecordTable \in collections

\* ------------------------------------------------------- store operations

\* deleteDirtyRecords with the filter the wrong way round: {dirty: false}.
deleteCleanRecords(t) == SelectSeq(t, LAMBDA r : r.dirty)

\* deleteDirtyRecords as deleteOne({dirty: true}): the first dirty record only.
deleteOneDirtyRecord(t) ==
  IF \E i \in 1..Len(t) : t[i].dirty
    THEN LET f == CHOOSE i \in 1..Len(t) : t[i].dirty /\ \A j \in 1..(i - 1) : ~t[j].dirty
         IN  SubSeq(t, 1, f - 1) \o SubSeq(t, f + 1, Len(t))
    ELSE t

\* deleteMany({dirty: true})
deleteDirtyRecords(t) == SelectSeq(t, LAMBDA r : ~r.dirty)

\* The first document, in the collection's natural order, whose id is `id`;
\* 0 when there is none.
FirstMatch(t, id) ==
  IF \E i \in 1..Len(t) : t[i].id = id
    THEN CHOOSE i \in 1..Len(t) : t[i].id = id /\ \A j \in 1..(i - 1) : t[j].id # id
    ELSE 0

\* updateRecord with a filter that matches nothing (_id where id is meant).
updateRecordNoMatch(t, c) == t

\* updateRecord with {upsert: true}: no match inserts a record.
updateRecordUpsert(t, c) ==
  IF FirstMatch(t, c.id) = 0
    THEN Append(t, [id |-> c.id, version |-> 0, type |-> "", title |-> "",
                    hash |-> c.hash, appliedAt |-> "now", appliedBy |-> "",
                    executionTime |-> 0, dirty |-> FALSE])
    ELSE [t EXCEPT ![FirstMatch(t, c.id)].hash = c.hash]

\* updateOne({id}, {$set: {hash}}): the first match gets the hash, no upsert.
updateRecord(t, c) ==
  IF FirstMatch(t, c.id) = 0 THEN t
  ELSE [t EXCEPT ![FirstMatch(t, c.id)].hash = c.hash]

\* The loop of repair over the first n corrections, in the caller's order.
RECURSIVE ApplyUpdates(_, _, _)
ApplyUpdates(t, cs, n) ==
  IF n = 0 THEN t ELSE updateRecord(ApplyUpdates(t, cs, n - 1), cs[n])

\* find({id: {$gte: startid}}).toArray(): no sort is asked for, the matching
\* documents come in the collection's natural order.
Find(t, startid) == SelectSeq(t, LAMBDA r : HasId(r) /\ r.id >= startid)

\* --------------------------------------------------------------- open/close

\* open(): connect, take the db handle, create the record collection.
\* `create` is the answer to createCollection: "ok", "fails" (the store
\* rejects the call) or "exists". On a collection that exists the call either
\* answers with the existing collection ("ok": a driver that looks the name up
\* first) or rejects with NamespaceExists ("exists": a driver that sends the
\* create to the server); the code asks for neither and handles no rejection.
Open(connectFails, create) ==
  IF connectFails
    THEN /\ last' = Call("open", ErrConnect)
         /\ UNCHANGED <<client, db, conns, collections, table, holders>>
    ELSE /\ client < MaxConns
         /\ create = "exists" => RecordTable \in collections
         /\ client' = client + 1
         /\ db' = client + 1
         /\ conns' = conns \cup {client + 1}
         /\ IF create = "ok"
              THEN /\ last' = Call("open", "ok")
                   /\ collections' = collections \cup {RecordTable}
              ELSE /\ last' = Call("open", IF create = "exists" THEN ErrExists ELSE ErrStore)
                   /\ UNCHANGED collections
         /\ UNCHANGED <<table, holders>>

\* close(): closes the current client, if any; client and db keep their value.
\* Closing a client that is closed already answers like the first close. The
\* call record keeps in `again` whether the call before it was a close too.
CloseRejectsWhenClosed ==
  /\ conns' = IF client # Null THEN conns \ {client} ELSE conns
  /\ last' = [Call("close", IF client # Null /\ client \notin conns
                              THEN ErrClosed ELSE "ok")
               EXCEPT !.again = (last.op = "close")]
  /\ UNCHANGED <<client, db, collections, table, holders>>

Close ==
  /\ conns' = IF client # Null THEN conns \ {client} ELSE conns
  /\ last' = [Call("close", "ok") EXCEPT !.again = (last.op = "close")]
  /\ UNCHANGED <<client, db, collections, table, holders>>

\* lock() / unlock(): noOp().
Lock(i) ==
  /\ holders' = holders \cup {i}
  /\ last' = Call("lock", "ok")
  /\ UNCHANGED <<client, db, conns, collections, table>>

Unlock(i) ==
  /\ holders' = holders \ {i}
  /\ last' = Call("unlock", "ok")
  /\ UNCHANGED <<client, db, conns, collections, table>>

\* drop(): list the collections, then one dropCollection per collection, all
\* started together; each of them answers or rejects on its own. The call
\* record keeps in `swept` how many records went with the record collection.
DropSparesRecords(dropped) ==
  IF db = Null
    THEN /\ last' = Call("drop", ErrNull)
         /\ UNCHANGED <<client, db, conns, collections, table, holders>>
  ELSE IF ~Alive
    THEN /\ last' = Call("drop", ErrClosed)
         /\ UNCHANGED <<client, db, conns, collections, table, holders>>
  ELSE /\ dropped \subseteq collections
       /\ collections' = collections \ (dropped \ {RecordTable})
       /\ table' = table
       /\ last' = [Call("drop", IF dropped = collections THEN "ok" ELSE ErrStore)
                    EXCEPT !.swept = IF RecordTable \in dropped THEN Len(table) ELSE 0]
       /\ UNCHANGED <<client, db, conns, holders>>

Drop(dropped) ==
  IF db = Null
    THEN /\ last' = Call("drop", ErrNull)
         /\ UNCHANGED <<client, db, conns, collections, table, holders>>
  ELSE IF ~Alive
    THEN /\ last' = Call("drop", ErrClosed)
         /\ UNCHANGED <<client, db, conns, collections, table, holders>>
  ELSE /\ dropped \subseteq collections
       /\ collections' = collections \ dropped
       /\ table' = IF RecordTable \in dropped THEN <<>> ELSE table
       /\ last' = [Call("drop", IF dropped = collections THEN "ok" ELSE ErrStore)
                    EXCEPT !.swept = IF RecordTable \in dropped THEN Len(table) ELSE 0]
       /\ UNCHANGED <<client, db, conns, holders>>

\* ---------------------------------------------------------------------- run

\* Pending with a catch block that swallows the unit's error.
PendingSwallowed(d, unit) ==
  IF d.run /\ db # Null THEN "ok" ELSE ErrRunNull

\* The error the try block leaves pending: the unit's own error, the
\* SynorError of the else branch, or none ("ok").
Pending(d, unit) ==
  IF d.run /\ db # Null
    THEN (IF unit = "throw" THEN ErrUnit ELSE "ok")
    ELSE ErrRunNull

\* What the runnable unit leaves in the database.
UnitEffect(invoked, unit) ==
  IF invoked /\ unit = "ok" /\ Alive THEN {OtherColl} ELSE {}

\* run(): try { unit or throw } catch { dirty = true; rethrow } finally
\* { insert the record }. A rejection of the insert inside finally replaces
\* the pending error. `unit` is what the runnable unit does when it is
\* invoked; startTime and endTime are the two readings of performance.now().
\* A unit that completes has migrated the application's data: it leaves the
\* application's collection in the database.
Run(d, unit, startTime, endTime, insertFails) ==
  LET invoked == d.run /\ db # Null
      pending == Pending(d, unit)
      dirty   == pending # "ok"
      call    == [Call("run", pending) EXCEPT
                    !.desc = d, !.unit = IF invoked THEN unit ELSE "none"]
  IN  /\ Len(table) < MaxRecords
      /\ startTime <= endTime
      /\ IF db = Null
           THEN /\ last' = call
                /\ UNCHANGED <<collections, table>>
         ELSE IF insertFails \/ ~Alive
           THEN /\ last' = [call EXCEPT
                              !.result = IF Alive THEN ErrStore ELSE ErrClosed,
                              !.insert = "failed"]
                /\ collections' = collections \cup UnitEffect(invoked, unit)
                /\ UNCHANGED table
         ELSE /\ table' = Append(table, RunDoc(d, startTime, endTime, dirty))
              /\ collections' =
                   collections \cup UnitEffect(invoked, unit) \cup {RecordTable}
              /\ last' = [call EXCEPT !.insert = "ok"]
      /\ UNCHANGED <<client, db, conns, holders>>

\* ------------------------------------------------------------------- repair

\* Repair with a loop that goes on with the next correction after an update
\* rejected, and rejects at the end.
RepairKeepsGoing(cs, failAt) ==
  LET again == last.op = "repair" /\ last.result = "ok" /\ last.corrections = cs
      call(result, at) == [Call("repair", result) EXCEPT
                             !.corrections = cs, !.failAt = at, !.again = again]
  IN  /\ failAt <= Len(cs) + 1
      /\ IF db = Null
           THEN /\ last' = call(ErrNull, 0)
                /\ UNCHANGED table
         ELSE IF ~Alive \/ failAt = 1
           THEN /\ last' = call(IF Alive THEN ErrStore ELSE ErrClosed, 1)
                /\ UNCHANGED table
         ELSE /\ table' = ApplyUpdates(deleteDirtyRecords(table), cs, Len(cs))
              /\ last' = call(IF failAt = 0 THEN "ok" ELSE ErrStore, failAt)
      /\ UNCHANGED <<client, db, conns, collections, holders>>

\* repair(records): null guard, the sweep, then one update per correction.
\* failAt numbers the store call that rejects: 1 is the deleteMany, k + 1 the
\* k-th updateOne, 0 none.
Repair(cs, failAt) ==
  LET again == last.op = "repair" /\ last.result = "ok" /\ last.corrections = cs
      swept == Len(table) - Len(deleteDirtyRecords(table))
      call(result, at) == [Call("repair", result) EXCEPT
                             !.corrections = cs, !.failAt = at, !.again = again,
                             !.swept = IF at = 1 \/ db = Null THEN 0 ELSE swept]
  IN  /\ failAt <= Len(cs) + 1
      /\ IF db = Null
           THEN /\ last' = call(ErrNull, 0)
                /\ UNCHANGED table
         ELSE IF ~Alive \/ failAt = 1
           THEN /\ last' = call(IF Alive THEN ErrStore ELSE ErrClosed, 1)
                /\ UNCHANGED table
         ELSE IF failAt = 0
           THEN /\ table' = ApplyUpdates(deleteDirtyRecords(table), cs, Len(cs))
                /\ last' = call("ok", 0)
         ELSE /\ table' = ApplyUpdates(deleteDirtyRecords(table), cs, failAt - 2)
              /\ last' = call(ErrStore, failAt)
      /\ UNCHANGED <<client, db, conns, collections, holders>>

\* ------------------------------------------------------------------ records

\* records with a handle that outlives its client: the query still answers
\* after close().
RecordsThroughClosedHandle(startid, findFails) ==
  /\ IF db = Null
       THEN last' = [Call("records", ErrNull) EXCEPT !.startid = startid]
     ELSE IF findFails
       THEN last' = [Call("records", ErrStore) EXCEPT !.startid = startid]
     ELSE last' = [Call("records", "ok") EXCEPT
                     !.startid = startid, !.rows = Find(table, startid)]
  /\ UNCHANGED <<client, db, conns, collections, table, holders>>

\* records(startid): null guard, then the range query.
Records(startid, findFails) ==
  /\ IF db = Null
       THEN last' = [Call("records", ErrNull) EXCEPT !.startid = startid]
     ELSE IF findFails \/ ~Alive
       THEN last' = [Call("records", IF Alive THEN ErrStore ELSE ErrClosed) EXCEPT
                       !.startid = startid]
     ELSE last' = [Call("records", "ok") EXCEPT
                     !.startid = startid, !.rows = Find(table, startid)]
  /\ UNCHANGED <<client, db, conns, collections, table, holders>>

\* ----------------------------------------------------------- specification

Clock == 0..MaxClock

OpenStep  == \E connectFails \in BOOLEAN, create \in {"ok", "fails", "exists"} :
               Open(connectFails, create)
LockStep  == \E i \in Instances : Lock(i)
UnlockStep == \E i \in Instances : Unlock(i)
DropStep  == \E dropped \in SUBSET {RecordTable, OtherColl} : Drop(dropped)
RunStep   == \E d \in Descriptors, unit \in {"ok", "throw"}, s, e \in Clock,
                insertFails \in BOOLEAN : Run(d, unit, s, e, insertFails)
RepairStep == \E cs \in SeqsUpTo(Corrections, MaxCorr), failAt \in 0..(MaxCorr + 1) :
                Repair(cs, failAt)
RecordsStep == \E startid \in 0..(MaxId + 1), findFails \in BOOLEAN :
                Records(startid, findFails)

\* The run protocol: the orchestrator opens the engine, runs migrations one
\* after another, queries the history, closes.
NextRun == (client = Null /\ OpenStep) \/ Close \/ RunStep \/ RecordsStep

SpecRun == Init /\ [][NextRun]_vars

\* The audit and recovery flow: open once, then query the whole history and
\* repair. A repair that directly follows a repair is a re-invocation with
\* the same corrections; any other corrections come after a query.
AuditStep == Records(0, FALSE)

RetryStep == \E failAt \in 0..(MaxCorr + 1) : Repair(last.corrections, failAt)

NextRepair ==
  \/ client = Null /\ OpenStep
  \/ last.op # "repair" /\ RepairStep
  \/ last.op = "repair" /\ RetryStep
  \/ AuditStep

SpecRepair == Init /\ [][NextRepair]_vars

\* The engine's whole life: any operation after any other, the store
\* answering every call of run, repair and records that reaches it, the two
\* clock readings of a run equal.
LifeRun    == \E d \in Descriptors, unit \in {"ok", "throw"} : Run(d, unit, 0, 0, FALSE)
LifeRepair == \E cs \in SeqsUpTo(Corrections, 1) : Repair(cs, 0)

NextLife ==
  \/ OpenStep
  \/ Close
  \/ DropStep
  \/ LifeRun
  \/ LifeRepair
  \/ AuditStep

SpecLife == Init /\ [][NextLife]_vars

\* Every operation of the engine, lock and unlock included, around a single
\* open.
NextFrame ==
  \/ client = Null /\ OpenStep
  \/ Close
  \/ Lock(1)
  \/ Unlock(1)
  \/ DropStep
  \/ LifeRun
  \/ LifeRepair
  \/ AuditStep

SpecFrame == Init /\ [][NextFrame]_vars

\* Two orchestrator processes taking and releasing the advisory lock around
\* the engine's open and close.
NextLock == (client = Null /\ OpenStep) \/ Close \/ LockStep \/ UnlockStep

SpecLock == Init /\ [][NextLock]_vars

\* ------------------------------------------------------------------ claims

\* The step is a call of run that returns or rejects in the next state.
RunCall == last'.op = "run"

\* The next state's collection is this state's plus one record at its end.
OneMore == Len(table') = Len(table) + 1 /\ SubSeq(table', 1, Len(table)) = table

Newest(t) == t[Len(t)]

Carries(r, d) ==
  r.version = d.version /\ r.type = d.type /\ r.title = d.title /\ r.hash = d.hash

\* C1 as stated: every run on an opened engine whose runnable unit raises E
\* leaves exactly one more record, dirty and carrying the descriptor's
\* version, type, title and hash, and rejects with E.
C1_FailingRunAlwaysRecords ==
  [][(RunCall /\ Alive /\ last'.unit = "throw") =>
       /\ OneMore
       /\ Newest(table').dirty
       /\ Carries(Newest(table'), last'.desc)
       /\ last'.result = ErrUnit]_vars

\* C1 amended: on an opened engine, a run whose runnable unit raises E adds,
\* when its bookkeeping insert is accepted, exactly one record, dirty and
\* carrying the descriptor's version, type, title and hash, and rejects with
\* E; when the store rejects the insert, the collection is left as it was.
C1_FailingRunRecordsDirty ==
  [][(RunCall /\ Alive /\ last'.unit = "throw") =>
       /\ last'.insert = "ok" =>
            /\ OneMore
            /\ Newest(table').dirty
            /\ Carries(Newest(table'), last'.desc)
            /\ last'.result = ErrUnit
       /\ last'.insert # "ok" => table' = table]_vars

C1_Witness ==
  /\ last.op = "run" /\ last.unit = "throw" /\ last.insert = "ok"
  /\ last.result = ErrUnit
  /\ Alive
  /\ table # <<>> /\ Newest(table).dirty /\ Newest(table).version = 2

\* C2: every run on an opened engine whose runnable unit completes and that
\* returns leaves exactly one more record, with dirty = false and
\* executionTime >= 0.
C2_SuccessfulRunRecordsClean ==
  [][(RunCall /\ Alive /\ last'.unit = "ok" /\ last'.result = "ok") =>
       /\ OneMore
       /\ ~Newest(table').dirty
       /\ Newest(table').executionTime >= 0
       /\ Carries(Newest(table'), last'.desc)]_vars

C2_Witness ==
  /\ last.op = "run" /\ last.unit = "ok" /\ last.result = "ok"
  /\ Alive
  /\ table # <<>> /\ ~Newest(table).dirty /\ Newest(table).executionTime > 0

\* C3 as stated, the store accepting what it is sent: run on an opened
\* engine with a descriptor that has no runnable unit fails with the
\* malformed-migration error and writes no record.
C3_NoUnitNoRecord ==
  [][(RunCall /\ Alive /\ ~last'.desc.run /\ last'.insert # "failed") =>
       (last'.result = ErrRunNull /\ table' = table)]_vars

\* C4 as stated: when the runnable unit raises E and the insert of the dirty
\* record then fails with B, run rejects with E.
C4_OriginalErrorPropagates ==
  (last.op = "run" /\ last.unit = "throw" /\ last.insert = "failed")
    => last.result = ErrUnit

\* C5 as stated: a records(0) that follows a run on an opened engine returns
\* the run's row, last in the result, dirty exactly when the run's unit
\* raised.
C5_RunVisibleToRecords ==
  [][(/\ last.op = "run" /\ last.insert = "ok"
      /\ last'.op = "records" /\ last'.result = "ok" /\ last'.startid = 0) =>
       /\ last'.rows # <<>>
       /\ Newest(last'.rows) = Newest(table)
       /\ Newest(last'.rows).dirty = (last.result # "ok")]_vars

\* C6 as stated: records(startid) on an opened engine returns exactly the
\* stored records whose id >= startid, none missing and none with a smaller
\* id, sorted ascending by id.
C6_RecordsFilteredAndSorted ==
  (last.op = "records" /\ last.result = "ok") =>
     LET rows == last.rows
         want == {j \in DOMAIN table : HasId(table[j]) /\ table[j].id >= last.startid}
     IN  /\ \A i \in DOMAIN rows : HasId(rows[i]) /\ rows[i].id >= last.startid
         /\ \A j \in want : \E i \in DOMAIN rows : rows[i] = table[j]
         /\ Len(rows) = Cardinality(want)
         /\ \A i, k \in DOMAIN rows : i < k => rows[i].id <= rows[k].id

\* The step is a call of repair that completes in the next state.
RepairOk == last'.op = "repair" /\ last'.result = "ok"

Clean(t) == SelectSeq(t, LAMBDA r : ~r.dirty)

\* C7 as stated: after repair(corrections) no dirty record remains, every
\* {id, hash} of corrections whose id still exists has that hash, also when
\* corrections names an id more than once, and repair([]) only sweeps.
C7_EveryCorrectionHolds ==
  [][RepairOk =>
       LET cs == last'.corrections
       IN  /\ \A i \in DOMAIN table' : ~table'[i].dirty
           /\ \A k \in DOMAIN cs, i \in DOMAIN table' :
                table'[i].id = cs[k].id => table'[i].hash = cs[k].hash
           /\ cs = <<>> => table' = Clean(table)]_vars

\* C7 amended: after repair(corrections), on a collection whose ids are
\* unique, no dirty record remains and every id named in corrections that
\* still exists carries the hash of the last correction that names it;
\* repair([]) removes the dirty records and changes nothing else.
C7_LastCorrectionHolds ==
  [][RepairOk =>
       LET cs == last'.corrections
       IN  /\ \A i \in DOMAIN table' : ~table'[i].dirty
           /\ \A k \in DOMAIN cs, i \in DOMAIN table' :
                (/\ table'[i].id = cs[k].id
                 /\ \A m \in DOMAIN cs : m > k => cs[m].id # cs[k].id)
                  => table'[i].hash = cs[k].hash
           /\ cs = <<>> => table' = Clean(table)]_vars

C7_Witness ==
  /\ last.op = "repair" /\ last.result = "ok" /\ last.swept > 0
  /\ Len(last.corrections) = 2
  /\ last.corrections[1].id = last.corrections[2].id
  /\ last.corrections[1].hash # last.corrections[2].hash
  /\ \E i \in DOMAIN table :
       table[i].id = last.corrections[2].id /\ table[i].hash = last.corrections[2].hash

\* C8: a repair(corrections) that directly follows a completed
\* repair(corrections) with the same corrections leaves the record
\* collection as the first one left it.
C8_RepairIdempotent ==
  [][(RepairOk /\ last'.again) => table' = table]_vars

C8_Witness ==
  /\ last.op = "repair" /\ last.result = "ok" /\ last.again
  /\ last.corrections # <<>>
  /\ \E i \in DOMAIN table : table[i].hash = last.corrections[1].hash

\* C9: repair creates no record and a correction whose id belongs to a
\* record that was dirty, or to no record, changes nothing: after repair the
\* collection holds the records that were not dirty before it, in their
\* order, each unchanged but for the hash of those a correction names.
C9_RepairKeepsTheCleanRecords ==
  [][RepairOk =>
       LET cs   == last'.corrections
           kept == Clean(table)
           named(r) == \E k \in DOMAIN cs : cs[k].id = r.id
       IN  /\ Len(table') = Len(kept)
           /\ \A i \in DOMAIN kept :
                /\ [table'[i] EXCEPT !.hash = kept[i].hash] = kept[i]
                /\ ~named(kept[i]) => table'[i] = kept[i]]_vars

C9_Witness ==
  /\ last.op = "repair" /\ last.result = "ok" /\ last.swept > 0 /\ ~last.again
  /\ last.corrections # <<>>
  /\ table # <<>>
  /\ \A i \in DOMAIN table, k \in DOMAIN last.corrections :
       table[i].id # last.corrections[k].id /\ table[i].hash = "h1"

SetMax(S) == CHOOSE x \in S : \A y \in S : y <= x

\* C10: when the k-th update of repair rejects after the sweep, repair
\* rejects with that error, and the collection is the swept one with the
\* corrections before the k-th applied: a record none of them names is as
\* the sweep left it, a record they name carries the hash of the last of
\* them that names it.
C10_FailedUpdateStopsRepair ==
  [][(last'.op = "repair" /\ last'.failAt >= 2) =>
       LET cs   == last'.corrections
           k    == last'.failAt - 1
           kept == Clean(table)
           hits(r) == {j \in 1..(k - 1) : cs[j].id = r.id}
       IN  /\ last'.result = ErrStore
           /\ Len(table') = Len(kept)
           /\ \A i \in DOMAIN kept :
                IF hits(kept[i]) = {}
                  THEN table'[i] = kept[i]
                  ELSE table'[i] =
                         [kept[i] EXCEPT !.hash = cs[SetMax(hits(kept[i]))].hash]]_vars

C10_Witness ==
  /\ last.op = "repair" /\ last.result = ErrStore /\ last.failAt = 3
  /\ last.corrections[1].id # last.corrections[2].id
  /\ \E i, j \in DOMAIN table :
       /\ table[i].id = last.corrections[1].id
       /\ table[i].hash = last.corrections[1].hash
       /\ table[j].id = last.corrections[2].id
       /\ table[j].hash = "h1"

\* C11 as stated: on an opened engine, a records(0) that directly follows a
\* completed drop() fails with a connection error.
C11_RecordsAfterDropFails ==
  [][(/\ last.op = "drop" /\ last.result = "ok"
      /\ last'.op = "records" /\ last'.startid = 0) =>
       last'.result \in {ErrNull, ErrConnect, ErrClosed}]_vars

\* C12: a drop() that completes leaves no collection and no record; an open()
\* that succeeds right after it re-creates the record collection with no
\* record in it, and a records(0) on an empty record collection returns the
\* empty sequence.
C12_DropRemovesEverything ==
  [][/\ (last'.op = "drop" /\ last'.result = "ok") =>
          (collections' = {} /\ table' = <<>>)
     /\ (/\ last.op = "drop" /\ last.result = "ok"
         /\ last'.op = "open" /\ last'.result = "ok") =>
          (/\ collections' = {RecordTable}
           /\ table' = <<>>
           /\ Find(table', 0) = <<>>)
     /\ (/\ last'.op = "records" /\ last'.result = "ok" /\ last'.startid = 0
         /\ table = <<>>) =>
          last'.rows = <<>>]_vars

C12_Witness ==
  /\ last.op = "drop" /\ last.result = "ok" /\ last.swept > 0
  /\ collections = {}

\* C13 as stated: an open() that reaches the store while the record collection
\* already exists succeeds without error and leaves every record as it was.
C13_OpenIdempotentOnExistingCollection ==
  [][(/\ last'.op = "open" /\ last'.result \notin {ErrConnect, ErrStore}
      /\ RecordTable \in collections) =>
       (/\ last'.result = "ok"
        /\ table' = table
        /\ collections' = collections)]_vars

\* No open() of this engine has connected and returned normally: either none
\* connected at all, or the only one that did is the call just made and it
\* was rejected.
NeverOpened ==
  \/ client = Null
  \/ client = 1 /\ last.op = "open" /\ last.result # "ok"

C15_NoOverlappingOwnership == Cardinality(holders) <= 1

\* C16 as stated: the record a run writes carries an id, greater than the id
\* of every record that was in the collection before it.
C16_RunAssignsIncreasingId ==
  [][(RunCall /\ last'.insert = "ok") =>
       (/\ OneMore
        /\ HasId(Newest(table'))
        /\ \A i \in 1..Len(table) : Newest(table').id > table[i].id)]_vars

\* Record r is record q but for its hash.
SameButHash(r, q) == [r EXCEPT !.hash = q.hash] = q

\* C17: open, close, lock, unlock and records leave the record collection as
\* it is; run leaves it as it is or appends one record; drop leaves it as it
\* is or empties it; repair leaves it as it is or leaves exactly its records
\* with dirty = false, in their order, each unchanged but for its hash.
C17_OnlyRunRepairDropChangeRecords ==
  [][/\ last'.op \in {"open", "close", "lock", "unlock", "records"} =>
          table' = table
     /\ last'.op = "run" => (table' = table \/ OneMore)
     /\ last'.op = "drop" => (table' = table \/ table' = <<>>)
     /\ last'.op = "repair" =>
          \/ table' = table
          \/ /\ Len(table') = Len(Clean(table))
             /\ \A i \in 1..Len(table') : SameButHash(table'[i], Clean(table)[i])]_vars

C17_Witness ==
  /\ last.op = "repair" /\ last.result = "ok" /\ last.swept > 0
  /\ \E i \in 1..Len(table) : table[i].hash = "fixed"
  /\ holders # {}

\* C18 as stated: on an engine on which open() has never succeeded, drop,
\* repair, records and a run with a runnable unit are rejected, the unit is
\* not invoked, and collections and records are left as they are.
C18_UnopenedEngineRejects ==
  [][(/\ NeverOpened
      /\ last'.op \in {"drop", "repair", "records", "run"}
      /\ last'.op = "run" => last'.desc.run) =>
       (/\ last'.result # "ok"
        /\ last'.unit = "none"
        /\ table' = table
        /\ collections' = collections)]_vars

C20_AtMostOneConnection ==
  /\ Cardinality(conns) <= 1
  /\ last.op = "close" => conns = {}

====
